---- MODULE Spec2Model ----
(***************************************************************************)
(* StreamCast deck: the connection registry, the activity log, the button  *)
(* store and the notification dispatcher of the App component, as a state  *)
(* machine.  The repository holds four revisions of the App component:     *)
(*   "request" : src/App.tsx lines 1-497    (permission-request fallback)  *)
(*   "timeout" : src/App.tsx lines 498-1019 (2 s race against the SW)      *)
(*   "strict"  : src/unnamed/part_000 lines 1-475                          *)
(*   "room"    : src/unnamed/part_000 lines 476-760 (room mode, no alerts) *)
(* The variable `variant` selects the revision; it never changes.          *)
(* Strings the code trims or compares (peer identifiers, connect targets)  *)
(* are sequences of one-character strings; other strings are atoms.        *)
(***************************************************************************)
EXTENDS Integers, Sequences, FiniteSets, TLC

VARIABLES
  variant,              \* which revision of App runs
  phase,                \* "created" before the mount effects ran, then "mounted"
  now,                  \* Date.now(), a logical clock
  op,                   \* the handler that ran last: its inputs and the messages it
                        \* handed to conn.send (history variable)
  logs,                 \* useState logs, newest first
  peerRef,              \* peerRef.current # null
  peerId,               \* useState peerId
  isPeerReady,          \* useState isPeerReady
  qrDataUrl,            \* useState qrDataUrl
  conns,                \* the live DataConnection objects: peer, open flag, handlers' closure
  connections,          \* useState connections: the registry, a list of connection objects
  isConnectModalOpen,   \* useState isConnectModalOpen
  lastBroadcast,        \* useState lastBroadcast (room revision)
  buttons,              \* useState buttons
  stored,               \* localStorage['streamcast_buttons']: Null or a token sequence
  hasNotification,      \* 'Notification' in window
  hasServiceWorker,     \* 'serviceWorker' in navigator
  browserPermission,    \* Notification.permission, read live
  isNotificationSupported, \* useState isNotificationSupported
  notificationPermission,  \* useState notificationPermission
  notificationsEnabled,    \* useState notificationsEnabled
  isIOS,                \* useState isIOS
  isStandalone,         \* useState isStandalone
  showCb,               \* what the memoized showLocalNotification callback closes over
  swReady,              \* navigator.serviceWorker.ready has resolved
  swCanShow,            \* 'showNotification' in registration
  tasks,                \* the asynchronous flows suspended at an await
  isModalOpen,          \* useState isModalOpen
  editingButton,        \* useState editingButton: <<>> for null, else <<button>>
  config,               \* useState config of EditModal
  uuids,                \* how many identifiers crypto.randomUUID() has handed out
  saved,                \* the configuration last saved through the form and not
                        \* deleted since, <<>> if none (history variable)
  isScannerActive,      \* useState isScannerActive
  scannerRef,           \* scannerRef.current: <<>> for null, else the scanner with
                        \* what its scan callback closes over
  isGenerating,         \* useState isGenerating of EditModal
  prompt,               \* useState prompt of EditModal, a sequence of characters
  requests              \* the calls of generateButtonConfig in flight, oldest first

vars == << variant, phase, now, op, logs, peerRef, peerId, isPeerReady, qrDataUrl,
           conns, connections, isConnectModalOpen, lastBroadcast, buttons, stored,
           hasNotification, hasServiceWorker, browserPermission,
           isNotificationSupported, notificationPermission, notificationsEnabled,
           isIOS, isStandalone, showCb, swReady, swCanShow, tasks,
           isModalOpen, editingButton, config, uuids, saved,
           isScannerActive, scannerRef, isGenerating, prompt, requests >>

editVars  == << isModalOpen, editingButton, config, uuids, saved >>
envVars   == << hasNotification, hasServiceWorker, browserPermission, swReady, swCanShow >>
notifVars == << isNotificationSupported, notificationPermission, notificationsEnabled,
                isIOS, isStandalone >>

peerVars  == << peerRef, peerId, isPeerReady, qrDataUrl >>
connVars  == << conns, connections >>
storeVars == << buttons, stored >>
scanVars  == << isScannerActive, scannerRef >>
genVars   == << isGenerating, prompt, requests >>

(***************************************************************************)
(* Bounds of the model.                                                    *)
(***************************************************************************)
MaxConns == 2           \* connection objects alive (pending or open) at one time
MaxTime  == 5           \* clock readings in a run of the registry specification
MaxTasks == 2           \* asynchronous flows suspended at one time

Variants   == {"request", "timeout", "strict", "room"}
ConnIds    == 1..MaxConns
TaskIds    == 1..MaxTasks
Null       == "null"

\* identifiers as character sequences
LocalId    == <<"m">>
RemoteIds  == { <<"a">>, <<"b">> }
\* what the user types or scans: empty, blank, the own id, a padded remote id
Targets    == { <<>>, <<" ">>, <<"m">>, <<" ", "a">> }

(***************************************************************************)
(* Helpers on sequences: the JavaScript array and string methods used.     *)
(***************************************************************************)
Take(s, n) == SubSeq(s, 1, IF Len(s) < n THEN Len(s) ELSE n)

IsWhite(ch) == ch = " "

RECURSIVE TrimStart(_)
TrimStart(s) ==
  IF s # <<>> /\ IsWhite(Head(s)) THEN TrimStart(Tail(s)) ELSE s

RECURSIVE TrimEnd(_)
TrimEnd(s) ==
  IF s # <<>> /\ IsWhite(s[Len(s)]) THEN TrimEnd(SubSeq(s, 1, Len(s) - 1)) ELSE s

Trim(s) == TrimEnd(TrimStart(s))

(***************************************************************************)
(* types.ts                                                                *)
(***************************************************************************)
Btn(i, l, ic, c, p) == [id |-> i, label |-> l, iconName |-> ic, color |-> c, payload |-> p]

DEFAULT_BUTTONS ==
  << Btn("1", "Scene 1",  "monitor",        "bg-blue-600",    "{action:scene,id:1}"),
     Btn("2", "Mute Mic", "mic-off",        "bg-red-600",     "{action:mute}"),
     Btn("3", "Camera",   "camera",         "bg-emerald-600", "{action:camera_toggle}"),
     Btn("4", "Chat",     "message-square", "bg-purple-600",  "{action:chat_overlay}"),
     Btn("5", "BRB",      "clock",          "bg-amber-600",   "{action:scene,id:brb}"),
     Btn("6", "Ending",   "power",          "bg-rose-600",    "{action:stop_stream}") >>

BroadcastMessage(id, p, t) ==
  [type |-> "BUTTON_PRESS", buttonId |-> id, payload |-> p, timestamp |-> t]

\* buttons.find(b => b.id === id): the index of the first match, 0 when there is none
FindButton(bs, id) ==
  IF \E i \in 1..Len(bs) : bs[i].id = id
  THEN CHOOSE i \in 1..Len(bs) : bs[i].id = id /\ \A j \in 1..(i - 1) : bs[j].id # id
  ELSE 0

(***************************************************************************)
(* The log.                                                                *)
(***************************************************************************)
LogCapacity     == 100
RoomLogCapacity == 50

LogEntry(msg, type, t) == [msg |-> msg, type |-> type, time |-> t]

\* (mutation for C5: slice(0, 101), one entry too many)
AddLogOffByOne(prev, msg, type, t) == Take(<<LogEntry(msg, type, t)>> \o prev, LogCapacity + 1)

\* (mutation for C21: the new entry is put at the tail)
AddLogAtTail(prev, msg, type, t) == Take(prev \o <<LogEntry(msg, type, t)>>, LogCapacity)

\* setLogs(prev => [{ msg, type, time: Date.now() }, ...prev].slice(0, 100))
AddLog(prev, msg, type, t) == Take(<<LogEntry(msg, type, t)>> \o prev, LogCapacity)

\* room revision: setLogs(prev => [msg, ...prev].slice(0, 50))
AddRoomLog(prev, msg) == Take(<<msg>> \o prev, RoomLogCapacity)

\* the activity log of a revision after addLog(msg, type); the room revision has
\* no addLog: it writes to the console only
Logged(prev, msg, type, t) ==
  IF variant = "room" THEN prev ELSE AddLog(prev, msg, type, t)

(***************************************************************************)
(* JSON.stringify and JSON.parse of the button list, over token sequences. *)
(***************************************************************************)
P(ch)  == [t |-> "punct", v |-> ch]
S(str) == [t |-> "str", v |-> str]

ButtonKeys == <<"id", "label", "iconName", "color", "payload">>

RECURSIVE StringifyFields(_, _)
StringifyFields(b, i) ==
  IF i > Len(ButtonKeys) THEN <<>>
  ELSE (IF i > 1 THEN <<P(",")>> ELSE <<>>)
       \o <<S(ButtonKeys[i]), P(":"), S(b[ButtonKeys[i]])>>
       \o StringifyFields(b, i + 1)

StringifyButton(b) == <<P("{")>> \o StringifyFields(b, 1) \o <<P("}")>>

RECURSIVE StringifyElems(_, _)
StringifyElems(bs, i) ==
  IF i > Len(bs) THEN <<>>
  ELSE (IF i > 1 THEN <<P(",")>> ELSE <<>>)
       \o StringifyButton(bs[i]) \o StringifyElems(bs, i + 1)

\* JSON.stringify(newButtons)
JSONStringify(bs) == <<P("[")>> \o StringifyElems(bs, 1) \o <<P("]")>>

ParseFail == [ok |-> FALSE, val |-> <<>>, next |-> 0]
TokIs(toks, i, tok) == i <= Len(toks) /\ toks[i] = tok
IsStr(toks, i) == i <= Len(toks) /\ toks[i].t = "str"

\* the members of an object, after "{" or ","; a repeated key keeps the last value
RECURSIVE ParsePairs(_, _, _)
ParsePairs(toks, i, acc) ==
  IF ~(IsStr(toks, i) /\ TokIs(toks, i + 1, P(":")) /\ IsStr(toks, i + 2)) THEN ParseFail
  ELSE LET k    == toks[i].v
           obj  == [x \in (DOMAIN acc) \cup {k} |-> IF x = k THEN toks[i + 2].v ELSE acc[x]]
       IN  IF TokIs(toks, i + 3, P(",")) THEN ParsePairs(toks, i + 4, obj)
           ELSE IF TokIs(toks, i + 3, P("}")) THEN [ok |-> TRUE, val |-> obj, next |-> i + 4]
           ELSE ParseFail

ParseObject(toks, i) ==
  IF ~TokIs(toks, i, P("{")) THEN ParseFail
  ELSE IF TokIs(toks, i + 1, P("}")) THEN [ok |-> TRUE, val |-> <<>>, next |-> i + 2]
  ELSE ParsePairs(toks, i + 1, <<>>)

RECURSIVE ParseElems(_, _, _)
ParseElems(toks, i, acc) ==
  LET o == ParseObject(toks, i)
  IN  IF ~o.ok THEN ParseFail
      ELSE IF TokIs(toks, o.next, P(",")) THEN ParseElems(toks, o.next + 1, Append(acc, o.val))
      ELSE IF TokIs(toks, o.next, P("]"))
           THEN [ok |-> TRUE, val |-> Append(acc, o.val), next |-> o.next + 1]
      ELSE ParseFail

ParseArray(toks, i) ==
  IF ~TokIs(toks, i, P("[")) THEN ParseFail
  ELSE IF TokIs(toks, i + 1, P("]")) THEN [ok |-> TRUE, val |-> <<>>, next |-> i + 2]
  ELSE ParseElems(toks, i + 1, <<>>)

\* JSON.parse(saved) for a text that holds a list of flat objects: the list, or a
\* SyntaxError (ok = FALSE).  Text after the value is a SyntaxError too.
JSONParse(toks) ==
  LET a == ParseArray(toks, 1)
  IN  IF a.ok /\ a.next = Len(toks) + 1 THEN a ELSE ParseFail

\* localStorage: an absent key reads as null
Absent      == [present |-> FALSE, text |-> <<>>]
Stored(txt) == [present |-> TRUE, text |-> txt]

(***************************************************************************)
(* Construction: useState initial values, before the mount effects run.    *)
(***************************************************************************)
\* sent: the conn.send calls of the handler; alerts: its alert() calls;
\* shown: the notifications it displayed; threw: it ended in an exception or a
\* promise rejection nobody caught
Op(name, arg, c) ==
  [name |-> name, arg |-> arg, conn |-> c, sent |-> <<>>, alerts |-> <<>>,
   shown |-> <<>>, threw |-> FALSE]

\* useState(true) in src/App.tsx, useState(false) in the strict revision
InitEnabled(v) == v # "strict"

\* what showLocalNotification (and the requestNotificationPermission it calls)
\* reads from the render that created the callback
Closure(en, bs, sup, ios, sa) ==
  [enabled |-> en, buttons |-> bs, supported |-> sup, ios |-> ios, standalone |-> sa]

\* the callback of the first render, which the mount effects close over
MountClosure(v) == Closure(InitEnabled(v), DEFAULT_BUTTONS, FALSE, FALSE, FALSE)

\* an asynchronous flow suspended at an await: where it waits (pc), the function it
\* runs (kind), the title and body it computed before the await, and whether the
\* 2000 ms timer of the race is armed
Task(pc, kind, title, body, timed) ==
  [pc |-> pc, kind |-> kind, title |-> title, body |-> body, timed |-> timed]

IdleTask == Task("idle", "none", "", "", FALSE)

NoConn == [peer |-> <<>>, status |-> "unused", dir |-> "none", cb |-> MountClosure("room")]

Created(v, st, hasN, hasSW, perm, u) ==
  /\ variant = v
  /\ phase = "created"
  /\ now = 0
  /\ op = Op("new", <<>>, 0)
  /\ logs = <<>>
  /\ peerRef = FALSE
  /\ peerId = <<>>
  /\ isPeerReady = FALSE
  /\ qrDataUrl = <<>>
  /\ conns = [c \in ConnIds |-> NoConn]
  /\ connections = <<>>
  /\ isConnectModalOpen = FALSE
  /\ lastBroadcast = Null
  /\ buttons = DEFAULT_BUTTONS
  /\ stored = st
  /\ hasNotification = hasN
  /\ hasServiceWorker = hasSW
  /\ browserPermission = perm
  /\ isNotificationSupported = FALSE
  /\ notificationPermission = "default"
  /\ notificationsEnabled = InitEnabled(v)
  /\ isIOS = FALSE
  /\ isStandalone = FALSE
  /\ showCb = MountClosure(v)
  /\ swReady = FALSE
  /\ tasks = [t \in TaskIds |-> IdleTask]
  /\ isModalOpen = FALSE
  /\ editingButton = <<>>
  /\ config = Btn("", "", "command", "bg-blue-600", "{}")
  /\ uuids = u
  /\ saved = <<>>
  /\ isScannerActive = FALSE
  /\ scannerRef = <<>>
  /\ isGenerating = FALSE
  /\ prompt = <<>>
  /\ requests = <<>>

\* (mutation for C20: an identifier generator that hands out an identifier in use)
UuidTaken(n) == "1"

\* crypto.randomUUID(): the n-th identifier handed out
Uuid(n) == "uuid-" \o ToString(n)

\* the configuration the reset effect of EditModal builds for a new button
NewConfig(n) == Btn(Uuid(n), "New Button", "command", "bg-blue-600", "{}")

(***************************************************************************)
(* Mount: the startup effect and the PeerJS setup effect, in source order. *)
(***************************************************************************)
\* ('Notification' in window) && ('serviceWorker' in navigator); the timeout
\* revision asks for the Notification API only
Supported == IF variant = "timeout" THEN hasNotification
             ELSE hasNotification /\ hasServiceWorker

\* the deps [notificationsEnabled, buttons, addLog] of the useCallback: the callback
\* is created anew in the render after a change of notificationsEnabled or a
\* setButtons of a new array, and closes over that render's state
Recapture(oldCb, changed, en, bs, sup, ios, sa) ==
  IF changed THEN Closure(en, bs, sup, ios, sa) ELSE oldCb

Mount(ios, sa) ==
  /\ phase = "created"
  /\ phase' = "mounted"
  /\ op' = Op("mount", <<>>, 0)
  /\ LET parsed  == JSONParse(stored.text)
         \* if (saved): null and the empty string are falsy
         tried   == stored.present /\ stored.text # <<>>
         loaded  == tried /\ parsed.ok
         logs1   == IF tried /\ ~parsed.ok /\ variant # "room"
                    THEN AddLog(logs, <<"Failed to load saved buttons">>, "error", now)
                    ELSE logs
         sup     == Supported
         en      == IF variant = "room" \/ ~sup THEN notificationsEnabled
                    ELSE IF variant = "strict" THEN browserPermission = "granted"
                    ELSE (browserPermission = "granted") \/ notificationsEnabled
         bs      == IF loaded THEN parsed.val ELSE buttons
     IN  /\ buttons' = bs
         /\ IF variant = "room"
            THEN /\ logs' = logs1
                 /\ UNCHANGED << isIOS, isStandalone, isNotificationSupported,
                                 notificationPermission, notificationsEnabled, showCb >>
            ELSE /\ isIOS' = ios
                 /\ isStandalone' = sa
                 /\ isNotificationSupported' = sup
                 /\ notificationPermission' = IF sup THEN browserPermission
                                              ELSE notificationPermission
                 /\ notificationsEnabled' = en
                 /\ logs' = IF sup
                            THEN AddLog(logs1, <<"System: Notification engine initialized",
                                                 browserPermission>>, "info", now)
                            ELSE AddLog(logs1, <<"System: Notification API not detected">>,
                                        "info", now)
                 /\ showCb' = Recapture(showCb, loaded \/ en # notificationsEnabled,
                                        en, bs, sup, ios, sa)
  \* timeout revision: navigator.serviceWorker.getRegistration().then(...)
  /\ tasks' = IF variant = "timeout" /\ hasServiceWorker
               THEN [tasks EXCEPT ![1] = Task("awaitRegistration", "swCheck", "", "", FALSE)]
               ELSE tasks
  \* const peer = new Peer(); peerRef.current = peer
  /\ peerRef' = TRUE
  \* the reset effect of EditModal runs at its mount with initialConfig = null
  /\ config' = NewConfig(uuids + 1)
  /\ uuids' = uuids + 1
  /\ now' = now + 1
  /\ UNCHANGED << variant, scanVars, genVars, peerId, isPeerReady, qrDataUrl, conns, connections,
                  isConnectModalOpen, lastBroadcast, stored, envVars,
                  isModalOpen, editingButton, saved >>

(***************************************************************************)
(* Connection registry.                                                    *)
(***************************************************************************)
FreeConn == CHOOSE c \in ConnIds :
              conns[c].status = "unused" /\ \A d \in 1..(c - 1) : conns[d].status # "unused"

\* setupConnection(conn): the open, data and close handlers are attached; the data
\* handler calls the showLocalNotification of the render that ran setupConnection
SetupConnection(r, dir, cb) == [peer |-> r, status |-> "pending", dir |-> dir, cb |-> cb]

\* peer.on('open', id => ...)
PeerOpen(id) ==
  /\ phase = "mounted" /\ ~isPeerReady
  /\ op' = Op("peerOpen", id, 0)
  /\ peerId' = id
  /\ isPeerReady' = TRUE
  /\ IF variant = "room"
     THEN UNCHANGED << logs, qrDataUrl, now >>
     ELSE /\ logs' = AddLog(logs, <<"Network: P2P Ready. My ID", id>>, "info", now)
          /\ qrDataUrl' = <<"qr">> \o id
          /\ now' = now + 1
  /\ UNCHANGED << variant, scanVars, genVars, phase, peerRef, connVars, isConnectModalOpen,
                  lastBroadcast, storeVars, editVars, envVars, notifVars, showCb, tasks >>

\* (mutation for C9: the request is entered in the registry before it opens)
PeerConnectionEager(r) ==
  /\ phase = "mounted" /\ isPeerReady
  /\ \E c \in ConnIds : conns[c].status = "unused"
  /\ op' = Op("peerConnection", r, FreeConn)
  /\ conns' = [conns EXCEPT ![FreeConn] = SetupConnection(r, "in", MountClosure(variant))]
  /\ connections' = Append(connections, FreeConn)
  /\ logs' = Logged(logs, <<"Peer connected", r>>, "info", now)
  /\ now' = IF variant = "room" THEN now ELSE now + 1
  /\ UNCHANGED << variant, scanVars, genVars, phase, peerVars, isConnectModalOpen,
                  lastBroadcast, storeVars, editVars, envVars, notifVars, showCb, tasks >>

\* peer.on('connection', conn => ...): registered by the mount effect, so it runs
\* the setupConnection of the first render
PeerConnection(r) ==
  /\ phase = "mounted" /\ isPeerReady
  /\ \E c \in ConnIds : conns[c].status = "unused"
  /\ op' = Op("peerConnection", r, FreeConn)
  /\ conns' = [conns EXCEPT ![FreeConn] = SetupConnection(r, "in", MountClosure(variant))]
  /\ IF variant = "room"
     THEN UNCHANGED << logs, now >>
     ELSE /\ logs' = AddLog(logs, <<"Peer connected", r>>, "info", now)
          /\ now' = now + 1
  /\ UNCHANGED << variant, scanVars, genVars, phase, peerVars, connections, isConnectModalOpen,
                  lastBroadcast, storeVars, editVars, envVars, notifVars, showCb, tasks >>

\* peer.on('error', err => ...)
PeerError ==
  /\ phase = "mounted"
  /\ op' = Op("peerError", <<>>, 0)
  /\ IF variant = "room"
     THEN UNCHANGED << logs, now >>
     ELSE /\ logs' = AddLog(logs, <<"P2P Engine Error">>, "error", now)
          /\ now' = now + 1
  /\ UNCHANGED << variant, scanVars, genVars, phase, peerVars, connVars, isConnectModalOpen,
                  lastBroadcast, storeVars, editVars, envVars, notifVars, showCb, tasks >>

\* prev.find(c => c.peer === conn.peer)
HasPeer(reg, r) == \E i \in 1..Len(reg) : conns[reg[i]].peer = r

\* conn.on('open', ...): the library has set conn.open
ConnOpen(c) ==
  /\ phase = "mounted" /\ isPeerReady
  /\ conns[c].status = "pending"
  /\ op' = Op("connOpen", conns[c].peer, c)
  /\ conns' = [conns EXCEPT ![c].status = "open"]
  /\ connections' = IF HasPeer(connections, conns[c].peer) THEN connections
                    ELSE Append(connections, c)
  /\ UNCHANGED << variant, scanVars, genVars, phase, now, logs, peerVars, isConnectModalOpen,
                  lastBroadcast, storeVars, editVars, envVars, notifVars, showCb, tasks >>

\* a connection attempt the library gives up: no handler of the App runs, and the
\* object raises no further event
ConnFail(c) ==
  /\ phase = "mounted"
  /\ conns[c].status = "pending"
  /\ op' = Op("connFail", conns[c].peer, c)
  /\ conns' = [conns EXCEPT ![c] = NoConn]
  /\ UNCHANGED << variant, scanVars, genVars, phase, now, logs, peerVars, connections, 
                  isConnectModalOpen, lastBroadcast, storeVars, editVars, envVars, notifVars, showCb, tasks >>

\* prev.filter(c => c.peer !== conn.peer)
WithoutPeer(reg, r) == SelectSeq(reg, LAMBDA d : conns[d].peer # r)

\* conn.on('close', ...): the library has cleared conn.open; a closed object raises
\* no further event
ConnClose(c) ==
  /\ phase = "mounted"
  /\ conns[c].status = "open"
  /\ op' = Op("connClose", conns[c].peer, c)
  /\ conns' = [conns EXCEPT ![c] = NoConn]
  /\ connections' = WithoutPeer(connections, conns[c].peer)
  /\ IF variant = "room"
     THEN UNCHANGED << logs, now >>
     ELSE /\ logs' = AddLog(logs, <<"Peer disconnected", conns[c].peer>>, "info", now)
          /\ now' = now + 1
  /\ UNCHANGED << variant, scanVars, genVars, phase, peerVars, isConnectModalOpen,
                  lastBroadcast, storeVars, editVars, envVars, notifVars, showCb, tasks >>

\* the guard of connectToPeer; the room revision neither trims nor rejects ''
CleanId(targetId) == IF variant = "room" THEN targetId ELSE Trim(targetId)

ConnectRejected(targetId, pid) ==
  IF variant = "room" THEN ~peerRef \/ targetId = pid
  ELSE ~peerRef \/ Trim(targetId) = <<>> \/ Trim(targetId) = pid

\* connectToPeer(targetId), from the manual entry field of the current render
ConnectToPeer(targetId) ==
  /\ phase = "mounted"
  /\ IF ConnectRejected(targetId, peerId)
     THEN /\ op' = Op("connectToPeer", targetId, 0)
          /\ UNCHANGED << now, logs, conns, isConnectModalOpen >>
     ELSE /\ \E c \in ConnIds : conns[c].status = "unused"
          /\ op' = Op("connectToPeer", targetId, FreeConn)
          /\ conns' = [conns EXCEPT ![FreeConn] =
                         SetupConnection(CleanId(targetId), "out", showCb)]
          /\ IF variant = "room"
             THEN UNCHANGED << logs, now, isConnectModalOpen >>
             ELSE /\ logs' = AddLog(logs, <<"Connecting to peer", CleanId(targetId)>>,
                                    "info", now)
                  /\ now' = now + 1
                  /\ isConnectModalOpen' = FALSE
  /\ UNCHANGED << variant, scanVars, genVars, phase, peerVars, connections, 
                  lastBroadcast, storeVars, editVars, envVars, notifVars, showCb, tasks >>

(***************************************************************************)
(* The connect dialog and its QR scanner (not in the room revision).       *)
(***************************************************************************)
\* the "Connect" control: setIsConnectModalOpen(true)
OpenConnectModal ==
  /\ phase = "mounted" /\ variant # "room"
  /\ ~isConnectModalOpen
  /\ isConnectModalOpen' = TRUE
  /\ op' = Op("openConnect", <<>>, 0)
  /\ UNCHANGED << variant, genVars, scanVars, phase, now, logs, peerVars, connVars,
                  lastBroadcast, storeVars, editVars, envVars, notifVars, showCb, tasks >>

\* "Scan Peer QR": setIsScannerActive(true), then the effect on [isScannerActive]
\* creates the scanner, whose scan callback closes over the connectToPeer of
\* that render
StartScanner ==
  /\ phase = "mounted" /\ variant # "room"
  /\ isConnectModalOpen /\ ~isScannerActive
  /\ isScannerActive' = TRUE
  /\ scannerRef' = IF scannerRef = <<>> THEN << [peerId |-> peerId, cb |-> showCb] >>
                   ELSE scannerRef
  /\ op' = Op("startScanner", <<>>, 0)
  /\ UNCHANGED << variant, genVars, phase, now, logs, peerVars, connVars,
                  isConnectModalOpen, lastBroadcast, storeVars, editVars, envVars,
                  notifVars, showCb, tasks >>

\* stopScanner(): the flag, then scannerRef.current.clear() and the handle
StopScanner ==
  /\ isScannerActive' = FALSE
  /\ scannerRef' = <<>>

\* the Cancel control over the camera picture
CancelScanner ==
  /\ phase = "mounted" /\ variant # "room"
  /\ isConnectModalOpen /\ isScannerActive
  /\ StopScanner
  /\ op' = Op("cancelScanner", <<>>, 0)
  /\ UNCHANGED << variant, genVars, phase, now, logs, peerVars, connVars,
                  isConnectModalOpen, lastBroadcast, storeVars, editVars, envVars,
                  notifVars, showCb, tasks >>

\* onClose of the connect dialog (close control and backdrop):
\* setIsConnectModalOpen(false); stopScanner()
CloseConnectModal ==
  /\ phase = "mounted" /\ variant # "room"
  /\ isConnectModalOpen
  /\ isConnectModalOpen' = FALSE
  /\ StopScanner
  /\ op' = Op("closeConnect", <<>>, 0)
  /\ UNCHANGED << variant, genVars, phase, now, logs, peerVars, connVars,
                  lastBroadcast, storeVars, editVars, envVars, notifVars, showCb, tasks >>

\* the scan callback: connectToPeer(decodedText) of the render that started the
\* scanner, then stopScanner()
ScanDecoded(decodedText) ==
  /\ phase = "mounted" /\ variant # "room"
  /\ isConnectModalOpen /\ isScannerActive /\ scannerRef # <<>>
  /\ IF ConnectRejected(decodedText, scannerRef[1].peerId)
     THEN /\ op' = Op("scanDecoded", decodedText, 0)
          /\ UNCHANGED << now, logs, conns, isConnectModalOpen >>
     ELSE /\ \E c \in ConnIds : conns[c].status = "unused"
          /\ op' = Op("scanDecoded", decodedText, FreeConn)
          /\ conns' = [conns EXCEPT ![FreeConn] =
                         SetupConnection(CleanId(decodedText), "out", scannerRef[1].cb)]
          /\ logs' = AddLog(logs, <<"Connecting to peer", CleanId(decodedText)>>,
                            "info", now)
          /\ now' = now + 1
          /\ isConnectModalOpen' = FALSE
  /\ StopScanner
  /\ UNCHANGED << variant, genVars, phase, peerVars, connections, lastBroadcast,
                  storeVars, editVars, envVars, notifVars, showCb, tasks >>

\* (mutation for C11: the loop stops after the first connection)
SendAllFirstOnly(reg, message) ==
  IF reg = <<>> \/ conns[Head(reg)].status # "open" THEN <<>>
  ELSE <<[to |-> Head(reg), peer |-> conns[Head(reg)].peer, msg |-> message]>>

\* connections.forEach(conn => conn.open && conn.send(message))
RECURSIVE SendAll(_, _)
SendAll(reg, message) ==
  IF reg = <<>> THEN <<>>
  ELSE (IF conns[Head(reg)].status = "open"
        THEN <<[to |-> Head(reg), peer |-> conns[Head(reg)].peer, msg |-> message]>>
        ELSE <<>>)
       \o SendAll(Tail(reg), message)

\* (mutation for C4: nothing is logged when there is nobody to send to)
HandleBroadcastSkipEmpty(id) ==
  /\ phase = "mounted"
  /\ LET i       == FindButton(buttons, id)
         message == BroadcastMessage(id, buttons[i].payload, now)
     IN  IF i = 0 \/ connections = <<>>
         THEN /\ op' = Op("handleBroadcast", id, 0)
              /\ UNCHANGED << now, logs, lastBroadcast >>
         ELSE /\ logs' = IF variant = "room" THEN AddRoomLog(logs, message)
                         ELSE AddLog(logs, <<"Sending Broadcast", buttons[i].label>>,
                                     "broadcast", now)
              /\ lastBroadcast' = IF variant = "room" THEN id ELSE lastBroadcast
              /\ op' = [Op("handleBroadcast", id, 0) EXCEPT
                          !.sent = SendAll(connections, message)]
              /\ now' = now + 1
  /\ UNCHANGED << variant, scanVars, genVars, phase, peerVars, connVars, isConnectModalOpen,
                  storeVars, editVars, envVars, notifVars, showCb, tasks >>

\* handleBroadcast(id)
HandleBroadcast(id) ==
  /\ phase = "mounted"
  /\ LET i       == FindButton(buttons, id)
         message == BroadcastMessage(id, buttons[i].payload, now)
     IN  IF i = 0
         THEN /\ op' = Op("handleBroadcast", id, 0)
              /\ UNCHANGED << now, logs, lastBroadcast >>
         ELSE /\ IF variant = "room"
                 THEN /\ lastBroadcast' = id
                      /\ logs' = AddRoomLog(logs, message)
                 ELSE /\ UNCHANGED lastBroadcast
                      /\ logs' = AddLog(logs, <<"Sending Broadcast", buttons[i].label>>,
                                        "broadcast", now)
              /\ op' = [Op("handleBroadcast", id, 0) EXCEPT
                          !.sent = SendAll(connections, message)]
              /\ now' = now + 1
  /\ UNCHANGED << variant, scanVars, genVars, phase, peerVars, connVars, isConnectModalOpen,
                  storeVars, editVars, envVars, notifVars, showCb, tasks >>

\* setTimeout(() => setLastBroadcast(null), 500)
ClearLastBroadcast ==
  /\ phase = "mounted" /\ lastBroadcast # Null
  /\ op' = Op("clearLastBroadcast", <<>>, 0)
  /\ lastBroadcast' = Null
  /\ UNCHANGED << variant, scanVars, genVars, phase, now, logs, peerVars, connVars, isConnectModalOpen,
                  storeVars, editVars, envVars, notifVars, showCb, tasks >>

(***************************************************************************)
(* Notification dispatcher.  A function that awaits is a task: the code up *)
(* to its first await runs inside the handler that called it, every        *)
(* continuation is an action of its own.  What a call does before it       *)
(* suspends is a record: the log, the task it leaves behind (<<>> if it    *)
(* returned), its alert() calls, the notifications it displayed, and       *)
(* whether it ended in an exception nobody caught.                         *)
(***************************************************************************)
Res(l, t, al, sh, th) == [logs |-> l, task |-> t, alerts |-> al, shown |-> sh, threw |-> th]

Shown(via, title, body) == [via |-> via, title |-> title, body |-> body]

FreeTask == CHOOSE t \in TaskIds :
              tasks[t].pc = "idle" /\ \A u \in 1..(t - 1) : tasks[u].pc # "idle"

\* `StreamCast: ${btn?.label || 'Remote Command'}`, with the buttons of the closure
Title(cb, msg) ==
  LET i == FindButton(cb.buttons, msg.buttonId)
  IN  "StreamCast: " \o (IF i = 0 \/ cb.buttons[i].label = "" THEN "Remote Command"
                         ELSE cb.buttons[i].label)

\* (mutation for C15: without the check of a permission already denied)
RequestNotificationPermissionNoDeniedCheck(cb, l, t) ==
  IF ~cb.supported
  THEN Res(l, <<>>, <<IF cb.ios /\ ~cb.standalone THEN "add to Home Screen"
                      ELSE "not supported">>, <<>>, FALSE)
  ELSE Res(AddLog(l, <<"Prompting for notification permission...">>, "info", t),
           <<Task("awaitPrompt", "request", "", "", FALSE)>>, <<>>, <<>>, FALSE)

\* requestNotificationPermission() up to its await, with the state cb of the
\* render it belongs to; Notification.permission is read live
RequestNotificationPermission(cb, l, t) ==
  IF ~cb.supported
  THEN Res(l, <<>>, <<IF cb.ios /\ ~cb.standalone THEN "add to Home Screen"
                      ELSE "not supported">>, <<>>, FALSE)
  ELSE IF browserPermission = "denied"
  THEN Res(l, <<>>, <<"blocked">>, <<>>, FALSE)
  ELSE Res(AddLog(l, <<"Prompting for notification permission...">>, "info", t),
           <<Task("awaitPrompt", "request", "", "", FALSE)>>, <<>>, <<>>, FALSE)

\* new Notification(title, { body }) and the log entries around it: ok says whether
\* the constructor returned (it throws where only the service worker may notify)
WindowNotification(l, title, body, ok, t) ==
  LET sh == IF ok THEN <<Shown("window", title, body)>> ELSE <<>>
  IN  IF variant = "request"
      THEN LET l1 == AddLog(l, <<"SW Notification not available. Falling back">>, "info", t)
           IN  Res(IF ok THEN AddLog(l1, <<"Legacy notification triggered for", title>>, "info", t)
                   ELSE AddLog(l1, <<"Notification execution failed">>, "error", t),
                   <<>>, <<>>, sh, FALSE)
      ELSE IF variant = "timeout"
      THEN Res(IF ok THEN AddLog(l, <<"Notification sent via Window API.">>, "info", t)
               ELSE AddLog(l, <<"Window Notification failed">>, "error", t),
               <<>>, <<>>, sh, FALSE)
      ELSE Res(IF ok THEN l ELSE AddLog(l, <<"Notification delivery failed">>, "error", t),
               <<>>, <<>>, sh, FALSE)

\* showLocalNotification(msg) of the request revision, up to its await
ShowRequest(cb, msg, l, t) ==
  LET l1 == AddLog(l, <<"Attempting notification for", msg.buttonId>>, "info", t)
      l2 == AddLog(l1, <<"Waiting for ServiceWorker registration...">>, "info", t)
  IN  IF ~hasNotification THEN Res(l1, <<>>, <<>>, <<>>, TRUE)
      ELSE IF browserPermission # "granted"
      THEN RequestNotificationPermission(cb,
             AddLog(l1, <<"Notification failed: Permission is", browserPermission>>,
                    "error", t), t)
      ELSE IF ~cb.enabled
      THEN Res(AddLog(l1, <<"Notification skipped">>, "info", t), <<>>, <<>>, <<>>, FALSE)
      ELSE IF ~hasServiceWorker
      THEN Res(AddLog(l2, <<"Notification execution failed">>, "error", t),
               <<>>, <<>>, <<>>, FALSE)
      ELSE Res(l2, <<Task("awaitReady", "dispatch", Title(cb, msg), msg.payload, FALSE)>>,
               <<>>, <<>>, FALSE)

\* (mutation for C14: the timeout revision without its permission gate)
ShowTimeoutUngated(cb, msg, l, t, ok) ==
  LET l1 == AddLog(l, <<"Notification trigger for", msg.buttonId>>, "info", t)
  IN  IF ~hasNotification THEN Res(l1, <<>>, <<>>, <<>>, TRUE)
      ELSE IF ~cb.enabled
      THEN Res(AddLog(l1, <<"Notification skipped">>, "info", t), <<>>, <<>>, <<>>, FALSE)
      ELSE IF hasServiceWorker
      THEN Res(l1, <<Task("awaitReady", "dispatch", Title(cb, msg), msg.payload, TRUE)>>,
               <<>>, <<>>, FALSE)
      ELSE WindowNotification(l1, Title(cb, msg), msg.payload, ok, t)

\* showLocalNotification(msg) of the timeout revision, up to its await
ShowTimeout(cb, msg, l, t, ok) ==
  LET l1 == AddLog(l, <<"Notification trigger for", msg.buttonId>>, "info", t)
  IN  IF ~hasNotification THEN Res(l1, <<>>, <<>>, <<>>, TRUE)
      ELSE IF browserPermission # "granted"
      THEN Res(AddLog(l1, <<"Notification blocked: Status is", browserPermission>>,
                      "error", t), <<>>, <<>>, <<>>, FALSE)
      ELSE IF ~cb.enabled
      THEN Res(AddLog(l1, <<"Notification skipped">>, "info", t), <<>>, <<>>, <<>>, FALSE)
      ELSE IF hasServiceWorker
      THEN Res(l1, <<Task("awaitReady", "dispatch", Title(cb, msg), msg.payload, TRUE)>>,
               <<>>, <<>>, FALSE)
      ELSE WindowNotification(l1, Title(cb, msg), msg.payload, ok, t)

\* showLocalNotification(msg) of the strict revision, up to its await
ShowStrict(cb, msg, l, t) ==
  IF ~cb.enabled THEN Res(l, <<>>, <<>>, <<>>, FALSE)
  ELSE IF ~hasNotification THEN Res(l, <<>>, <<>>, <<>>, TRUE)
  ELSE IF browserPermission # "granted" THEN Res(l, <<>>, <<>>, <<>>, FALSE)
  ELSE IF ~hasServiceWorker
  THEN Res(AddLog(l, <<"Notification delivery failed">>, "error", t), <<>>, <<>>, <<>>, FALSE)
  ELSE Res(l, <<Task("awaitReady", "dispatch", Title(cb, msg), msg.payload, FALSE)>>,
           <<>>, <<>>, FALSE)

ShowLocalNotification(cb, msg, l, t, ok) ==
  IF variant = "request" THEN ShowRequest(cb, msg, l, t)
  ELSE IF variant = "timeout" THEN ShowTimeout(cb, msg, l, t, ok)
  ELSE ShowStrict(cb, msg, l, t)

\* the handler named name has run r: its log, its task, its record
Ran(r, name, arg, c) ==
  /\ r.task # <<>> => \E t \in TaskIds : tasks[t].pc = "idle"
  /\ logs' = r.logs
  /\ tasks' = IF r.task = <<>> THEN tasks ELSE [tasks EXCEPT ![FreeTask] = r.task[1]]
  /\ op' = [Op(name, arg, c) EXCEPT !.alerts = r.alerts, !.shown = r.shown,
                                    !.threw = r.threw]

\* the continuation of task t has run r and returned
Finished(t, r, name) ==
  /\ logs' = r.logs
  /\ tasks' = [tasks EXCEPT ![t] = IdleTask]
  /\ op' = [Op(name, tasks[t].title, 0) EXCEPT !.alerts = r.alerts, !.shown = r.shown,
                                               !.threw = r.threw]

\* conn.on('data', ...): the log entry, then the showLocalNotification that
\* setupConnection closed over; the room revision only records the message
ConnData(c, msg, ok) ==
  /\ phase = "mounted"
  /\ conns[c].status = "open"
  /\ IF variant = "room"
     THEN /\ logs' = AddRoomLog(logs, msg)
          /\ op' = Op("connData", msg.buttonId, c)
          /\ UNCHANGED tasks
     ELSE Ran(ShowLocalNotification(conns[c].cb, msg,
                AddLog(logs, <<"Received broadcast", msg.buttonId>>, "broadcast", now),
                now, ok),
              "connData", msg.buttonId, c)
  /\ now' = now + 1
  /\ UNCHANGED << variant, scanVars, genVars, phase, peerVars, connVars, isConnectModalOpen, lastBroadcast,
                  storeVars, editVars, envVars, notifVars, showCb >>

TestMessage(t) ==
  BroadcastMessage("test-debug", "This is a test notification from the debug panel.", t)

\* testNotification(): the control of the debug panel, with the callback of the
\* current render
TestNotification(ok) ==
  /\ phase = "mounted"
  /\ variant \in {"request", "timeout"}
  /\ Ran(ShowLocalNotification(showCb, TestMessage(now),
           AddLog(logs, <<"User triggered manual test notification.">>, "info", now),
           now, ok),
         "testNotification", "test-debug", 0)
  /\ now' = now + 1
  /\ UNCHANGED << variant, scanVars, genVars, phase, peerVars, connVars, isConnectModalOpen, lastBroadcast,
                  storeVars, editVars, envVars, notifVars, showCb >>

\* the text the bell writes to the log: the request and timeout revisions compute
\* it from the flag as it was before the click
ToggleText(old) ==
  IF variant = "strict" THEN (IF ~old THEN "ON" ELSE "OFF")
  ELSE (IF ~old THEN "OFF" ELSE "ON")

\* the words in front of it, one wording for each revision
ToggleLabel ==
  CASE variant = "request" -> "Alerts toggled"
    [] variant = "timeout" -> "Alerts"
    [] OTHER -> "Notifications listening toggled"

\* onClick of the bell
BellClick ==
  /\ phase = "mounted"
  /\ variant # "room"
  /\ IF notificationPermission # "granted"
        \/ (variant = "strict" /\ ~isNotificationSupported)
     THEN /\ Ran(RequestNotificationPermission(
                   Closure(notificationsEnabled, buttons, isNotificationSupported,
                           isIOS, isStandalone), logs, now),
                 "bell", "request", 0)
          /\ UNCHANGED << notificationsEnabled, showCb >>
     ELSE /\ notificationsEnabled' = ~notificationsEnabled
          /\ logs' = AddLog(logs, <<ToggleLabel, ToggleText(notificationsEnabled)>>,
                            "info", now)
          /\ showCb' = Closure(~notificationsEnabled, buttons, isNotificationSupported,
                               isIOS, isStandalone)
          /\ op' = Op("bell", "toggle", 0)
          /\ UNCHANGED tasks
  /\ now' = IF logs' # logs THEN now + 1 ELSE now
  /\ UNCHANGED << variant, scanVars, genVars, phase, peerVars, connVars, isConnectModalOpen, lastBroadcast,
                  storeVars, editVars, envVars, isNotificationSupported,
                  notificationPermission, isIOS, isStandalone >>

Permissions == {"default", "granted", "denied"}

\* the continuation after `await Notification.requestPermission()`: the user has
\* answered the prompt (the browser answers by itself once a choice was made)
PromptResolved(t, p) ==
  /\ tasks[t].pc = "awaitPrompt"
  /\ browserPermission # "default" => p = browserPermission
  /\ browserPermission' = p
  /\ notificationPermission' = p
  /\ op' = Op("promptResolved", p, 0)
  /\ IF p = "granted"
     THEN LET l1 == AddLog(logs, <<"Notification permission granted successfully.">>,
                           "info", now)
              \* reading navigator.serviceWorker.ready of undefined: caught
              l2 == AddLog(l1, <<"Permission Request Error">>, "error", now)
          IN  /\ notificationsEnabled' = TRUE
              /\ showCb' = Recapture(showCb, ~notificationsEnabled, TRUE, buttons,
                                     isNotificationSupported, isIOS, isStandalone)
              /\ IF hasServiceWorker
                 THEN /\ logs' = l1
                      /\ tasks' = [tasks EXCEPT ![t].pc = "awaitVerify"]
                 ELSE /\ tasks' = [tasks EXCEPT ![t] = IdleTask]
                      /\ logs' = IF variant = "timeout" THEN l1
                                 ELSE IF variant = "request" THEN l2
                                 ELSE AddLog(l2, <<"Permission granted via fallback.">>,
                                             "info", now)
     ELSE /\ logs' = AddLog(logs, <<"Notification permission declined", p>>, "info", now)
          /\ tasks' = [tasks EXCEPT ![t] = IdleTask]
          /\ UNCHANGED << notificationsEnabled, showCb >>
  /\ now' = now + 1
  /\ UNCHANGED << variant, scanVars, genVars, phase, peerVars, connVars, isConnectModalOpen, lastBroadcast,
                  storeVars, editVars, hasNotification, hasServiceWorker, swReady,
                  swCanShow, isNotificationSupported, isIOS, isStandalone >>

VerifyNotification(via) == <<Shown(via, "StreamCast Deck", "Permission Verified!")>>

\* the continuation that shows the verification notification: after
\* `await navigator.serviceWorker.ready`, or in the timeout revision after
\* `await navigator.serviceWorker.getRegistration()`, which resolves at once with
\* the registration if there is one (found)
Verify(found, ok) ==
  IF variant = "request"
  THEN Res(logs, <<>>, <<>>, IF swCanShow THEN VerifyNotification("sw") ELSE <<>>, FALSE)
  ELSE IF variant = "strict"
  THEN IF swCanShow THEN Res(logs, <<>>, <<>>, VerifyNotification("sw"), FALSE)
       \* registration.showNotification is not a function: caught, then
       \* Notification.requestPermission(callback) reports 'granted'
       ELSE Res(AddLog(AddLog(logs, <<"Unexpected error during permission request">>,
                              "error", now),
                       <<"Permission granted via fallback.">>, "info", now),
                <<>>, <<>>, <<>>, FALSE)
  ELSE IF found /\ swCanShow
  \* reg.showNotification(...) is not awaited: without an active worker its
  \* promise rejects and nobody handles the rejection
  THEN Res(logs, <<>>, <<>>, IF swReady THEN VerifyNotification("sw") ELSE <<>>, ~swReady)
  ELSE IF ok THEN Res(logs, <<>>, <<>>, VerifyNotification("window"), FALSE)
  ELSE Res(AddLog(logs, <<"Permission Request Error">>, "error", now),
           <<>>, <<>>, <<>>, FALSE)

VerifyReady(t, found, ok) ==
  /\ tasks[t].pc = "awaitVerify"
  /\ IF variant = "timeout" THEN swReady => found ELSE swReady
  /\ Finished(t, Verify(found, ok), "verifyReady")
  /\ now' = IF logs' # logs THEN now + 1 ELSE now
  /\ UNCHANGED << variant, scanVars, genVars, phase, peerVars, connVars, isConnectModalOpen, lastBroadcast,
                  storeVars, editVars, envVars, notifVars, showCb >>

\* the continuation of showLocalNotification after navigator.serviceWorker.ready
\* resolved (in the timeout revision: before the timer fired)
DispatchReady(t, ok) ==
  /\ tasks[t].pc = "awaitReady"
  /\ swReady
  /\ IF swCanShow
     THEN /\ tasks' = [tasks EXCEPT ![t].pc = "awaitShow"]
          /\ logs' = IF variant = "request"
                     THEN AddLog(logs, <<"SW Ready. Triggering showNotification...">>,
                                 "info", now)
                     ELSE logs
          /\ op' = Op("dispatchReady", tasks[t].title, 0)
     ELSE Finished(t, WindowNotification(logs, tasks[t].title, tasks[t].body, ok, now),
                   "dispatchReady")
  /\ now' = IF logs' # logs THEN now + 1 ELSE now
  /\ UNCHANGED << variant, scanVars, genVars, phase, peerVars, connVars, isConnectModalOpen, lastBroadcast,
                  storeVars, editVars, envVars, notifVars, showCb >>

\* the entry that reports a delivery through the service worker
Delivered(l, title, t) ==
  IF variant = "timeout" THEN AddLog(l, <<"Notification sent via ServiceWorker.">>, "info", t)
  ELSE AddLog(l, <<"Notification delivered for", title>>, "info", t)

\* the entry of the catch around the service worker path
Failed(l, why, t) ==
  IF variant = "timeout"
  THEN AddLog(l, <<"SW Notification failed or timed out", why>>, "info", t)
  ELSE IF variant = "request"
  THEN AddLog(l, <<"Notification execution failed">>, "error", t)
  ELSE AddLog(l, <<"Notification delivery failed">>, "error", t)

\* the continuation after `await registration.showNotification(...)`: the promise
\* resolved (shown) or rejected
ShowSettled(t, shown, ok) ==
  /\ tasks[t].pc = "awaitShow"
  /\ shown => browserPermission = "granted"
  /\ Finished(t,
       IF shown
       THEN Res(Delivered(logs, tasks[t].title, now), <<>>, <<>>,
                <<Shown("sw", tasks[t].title, tasks[t].body)>>, FALSE)
       ELSE IF variant = "timeout"
       THEN WindowNotification(Failed(logs, "rejected", now), tasks[t].title,
                               tasks[t].body, ok, now)
       ELSE Res(Failed(logs, "rejected", now), <<>>, <<>>, <<>>, FALSE),
       "showSettled")
  /\ now' = now + 1
  /\ UNCHANGED << variant, scanVars, genVars, phase, peerVars, connVars, isConnectModalOpen, lastBroadcast,
                  storeVars, editVars, envVars, notifVars, showCb >>

\* (mutation for C12: after the timeout the flow falls back to the window but keeps
\* waiting for the registration)
TimeoutFiresKeepsWaiting(t, ok) ==
  /\ tasks[t].pc = "awaitReady"
  /\ tasks[t].timed
  /\ ~swReady
  /\ LET r == WindowNotification(Failed(logs, "SW Timeout", now), tasks[t].title,
                                 tasks[t].body, ok, now)
     IN  /\ logs' = r.logs
         /\ tasks' = [tasks EXCEPT ![t].timed = FALSE]
         /\ op' = [Op("timeoutFires", tasks[t].title, 0) EXCEPT !.shown = r.shown]
  /\ now' = now + 1
  /\ UNCHANGED << variant, scanVars, genVars, phase, peerVars, connVars, isConnectModalOpen, lastBroadcast,
                  storeVars, editVars, envVars, notifVars, showCb >>

\* setTimeout(() => reject(new Error('SW Timeout')), 2000) of the race fires while
\* navigator.serviceWorker.ready is still pending
TimeoutFires(t, ok) ==
  /\ tasks[t].pc = "awaitReady"
  /\ tasks[t].timed
  /\ ~swReady
  /\ Finished(t, WindowNotification(Failed(logs, "SW Timeout", now), tasks[t].title,
                                    tasks[t].body, ok, now),
              "timeoutFires")
  /\ now' = now + 1
  /\ UNCHANGED << variant, scanVars, genVars, phase, peerVars, connVars, isConnectModalOpen, lastBroadcast,
                  storeVars, editVars, envVars, notifVars, showCb >>

\* .then(reg => ...) of the registration check the timeout revision starts at mount
SwCheckDone(t, found) ==
  /\ tasks[t].pc = "awaitRegistration"
  /\ swReady => found
  /\ Finished(t, Res(AddLog(logs, <<"SW Status", IF ~found THEN "none"
                                                 ELSE IF swReady THEN "active"
                                                 ELSE "pending">>, "info", now),
                     <<>>, <<>>, <<>>, FALSE),
              "swCheckDone")
  /\ now' = now + 1
  /\ UNCHANGED << variant, scanVars, genVars, phase, peerVars, connVars, isConnectModalOpen, lastBroadcast,
                  storeVars, editVars, envVars, notifVars, showCb >>

\* the browser activates the page's service worker: navigator.serviceWorker.ready
\* resolves
SwActivate ==
  /\ hasServiceWorker /\ ~swReady
  /\ swReady' = TRUE
  /\ op' = Op("swActivate", <<>>, 0)
  /\ UNCHANGED << variant, scanVars, genVars, phase, now, logs, peerVars, connVars, isConnectModalOpen,
                  lastBroadcast, storeVars, editVars, hasNotification, hasServiceWorker,
                  browserPermission, swCanShow, notifVars, showCb, tasks >>

(***************************************************************************)
(* The registry specification: a fresh browser profile (nothing stored,    *)
(* permission not yet asked), any revision.                                *)
(***************************************************************************)
BroadcastIds == {"1", "nope"}

Init ==
  /\ \E v \in Variants : Created(v, Absent, TRUE, TRUE, "default", 0)
  /\ swCanShow = TRUE

Next ==
  /\ now < MaxTime
  /\ \/ Mount(FALSE, FALSE)
     \/ PeerOpen(LocalId)
     \/ \E r \in RemoteIds : PeerConnection(r)
     \/ \E c \in ConnIds : ConnOpen(c)
     \/ \E c \in ConnIds : ConnFail(c)
     \/ \E c \in ConnIds : ConnClose(c)
     \/ \E t \in Targets : ConnectToPeer(t)
     \/ \E id \in BroadcastIds : HandleBroadcast(id)
     \/ ClearLastBroadcast
     \/ \E t \in TaskIds, found \in BOOLEAN : SwCheckDone(t, found)

Spec == Init /\ [][Next]_vars

\* The peer with the error events of the connection library.
MaxErrorTime == 4       \* clock readings at which a handler may start

NextError ==
  /\ now < MaxErrorTime
  /\ \/ Mount(FALSE, FALSE)
     \/ PeerOpen(LocalId)
     \/ \E r \in RemoteIds : PeerConnection(r)
     \/ \E c \in ConnIds : ConnOpen(c)
     \/ \E c \in ConnIds : ConnClose(c)
     \/ PeerError
     \/ \E t \in TaskIds, found \in BOOLEAN : SwCheckDone(t, found)

SpecError == Init /\ [][NextError]_vars

\* The connect dialog: opened, the scanner started and stopped, a code scanned,
\* an identifier typed.
MaxScanTime == 3        \* clock readings at which a handler may start

NextScan ==
  /\ now < MaxScanTime
  /\ \/ Mount(FALSE, FALSE)
     \/ PeerOpen(LocalId)
     \/ OpenConnectModal
     \/ StartScanner
     \/ CancelScanner
     \/ CloseConnectModal
     \/ \E t \in Targets : ScanDecoded(t)
     \/ \E t \in Targets : ConnectToPeer(t)
     \/ \E t \in TaskIds, found \in BOOLEAN : SwCheckDone(t, found)

SpecScan == Init /\ [][NextScan]_vars

(***************************************************************************)
(* The activity log at its capacity: one revision, a button pressed over   *)
(* and over with nobody connected.                                         *)
(***************************************************************************)
MaxLogTime == 103       \* clock readings in a run of the log specification

NextLog ==
  /\ now < MaxLogTime
  /\ \/ Mount(FALSE, FALSE)
     \/ HandleBroadcast("1")
     \/ \E t \in TaskIds, found \in BOOLEAN : SwCheckDone(t, found)

SpecLog == Init /\ [][NextLog]_vars

(***************************************************************************)
(* The button store: the edit form, saveButtons, and a reload of the page. *)
(***************************************************************************)
MaxUuids == 4           \* identifiers crypto.randomUUID() hands out in a run

\* the effect of EditModal on [initialConfig, open]: the edited button, or a new
\* configuration with a fresh identifier
ResetConfig(initialConfig, n) ==
  IF initialConfig # <<>> THEN initialConfig[1] ELSE NewConfig(n)

\* the "Add Button" control: setIsModalOpen(true)
OpenAdd ==
  /\ phase = "mounted" /\ ~isModalOpen /\ uuids < MaxUuids
  /\ op' = Op("openAdd", <<>>, 0)
  /\ isModalOpen' = TRUE
  /\ config' = ResetConfig(editingButton, uuids + 1)
  /\ uuids' = uuids + 1
  /\ UNCHANGED << variant, scanVars, genVars, phase, now, logs, peerVars, connVars, isConnectModalOpen,
                  lastBroadcast, storeVars, envVars, notifVars, showCb, tasks,
                  editingButton, saved >>

\* onEdit of a deck button: setEditingButton(cfg); setIsModalOpen(true)
OpenEdit(i) ==
  /\ phase = "mounted" /\ ~isModalOpen /\ i \in 1..Len(buttons)
  /\ op' = Op("openEdit", buttons[i].id, 0)
  /\ editingButton' = <<buttons[i]>>
  /\ isModalOpen' = TRUE
  /\ config' = ResetConfig(<<buttons[i]>>, uuids)
  /\ UNCHANGED << variant, scanVars, genVars, phase, now, logs, peerVars, connVars, isConnectModalOpen,
                  lastBroadcast, storeVars, envVars, notifVars, showCb, tasks, uuids, saved >>

\* an input of the form: setConfig({...config, [field]: value})
EditField(field, value) ==
  /\ phase = "mounted" /\ isModalOpen
  /\ op' = Op("editField", <<field, value>>, 0)
  /\ config' = [config EXCEPT ![field] = value]
  /\ UNCHANGED << variant, scanVars, genVars, phase, now, logs, peerVars, connVars, isConnectModalOpen,
                  lastBroadcast, storeVars, envVars, notifVars, showCb, tasks,
                  isModalOpen, editingButton, uuids, saved >>

(***************************************************************************)
(* The "magic" generation of EditModal: handleMagicGenerate calls the      *)
(* generateButtonConfig of src/services/gemini.ts and merges its result.   *)
(***************************************************************************)
Prompts == { <<>>, <<" ">>, <<"m">> }

\* what JSON.parse(response.text) may hold: all four fields, none of them (empty
\* or missing fields are falsy alike), the label only
Generated ==
  { [label |-> "Mute", iconName |-> "mic-off", color |-> "bg-red-600",
     payload |-> "{action:mute}"],
    [label |-> "", iconName |-> "", color |-> "", payload |-> ""],
    [label |-> "Quiet", iconName |-> "", color |-> "", payload |-> ""] }

\* why generateButtonConfig rejects: no API key, the request failed, the response
\* text is empty, the response text is no JSON or no object
Failures == { "API Key missing", "network", "Failed to generate config", "malformed" }

\* the input of the prompt field: setPrompt(e.target.value)
SetPrompt(p) ==
  /\ phase = "mounted" /\ isModalOpen
  /\ prompt' = p
  /\ op' = Op("setPrompt", p, 0)
  /\ UNCHANGED << variant, scanVars, isGenerating, requests, phase, now, logs, peerVars,
                  connVars, isConnectModalOpen, lastBroadcast, storeVars, editVars,
                  envVars, notifVars, showCb, tasks >>

\* handleMagicGenerate() up to its await; the control is disabled while
\* isGenerating || !prompt. The request records the edit session that issued it:
\* every close of the form draws an identifier, so uuids names the session
HandleMagicGenerate ==
  /\ phase = "mounted" /\ isModalOpen
  /\ ~isGenerating /\ prompt # <<>>
  /\ op' = Op("generate", prompt, 0)
  /\ IF Trim(prompt) = <<>>
     THEN UNCHANGED << isGenerating, requests >>
     ELSE /\ isGenerating' = TRUE
          /\ requests' = Append(requests, [prompt |-> prompt, session |-> uuids])
  /\ UNCHANGED << variant, scanVars, prompt, phase, now, logs, peerVars, connVars,
                  isConnectModalOpen, lastBroadcast, storeVars, editVars, envVars,
                  notifVars, showCb, tasks >>

\* (mutation for C29: every generated field is taken, empty or not)
MergeAll(prev, generated) ==
  [prev EXCEPT !.label = generated.label, !.iconName = generated.iconName,
               !.color = generated.color, !.payload = generated.payload]

\* { ...prev, label: generated.label || prev.label, ... }
Merge(prev, generated) ==
  [prev EXCEPT
     !.label    = IF generated.label = "" THEN prev.label ELSE generated.label,
     !.iconName = IF generated.iconName = "" THEN prev.iconName ELSE generated.iconName,
     !.color    = IF generated.color = "" THEN prev.color ELSE generated.color,
     !.payload  = IF generated.payload = "" THEN prev.payload ELSE generated.payload]

\* the continuation after `await generateButtonConfig(prompt)` resolved:
\* setConfig(prev => ...), then finally
GenerateResolved(generated) ==
  /\ requests # <<>>
  /\ config' = Merge(config, generated)
  /\ isGenerating' = FALSE
  /\ requests' = Tail(requests)
  /\ op' = Op("generateResolved", generated, 0)
  /\ UNCHANGED << variant, scanVars, prompt, phase, now, logs, peerVars, connVars,
                  isConnectModalOpen, lastBroadcast, storeVars, isModalOpen,
                  editingButton, uuids, saved, envVars, notifVars, showCb, tasks >>

\* (mutation for C22: without the finally block)
GenerateRejectedNoFinally(why) ==
  /\ requests # <<>>
  /\ requests' = Tail(requests)
  /\ op' = [Op("generateRejected", why, 0) EXCEPT
              !.alerts = <<"Failed to generate button. Check API Key.">>]
  /\ UNCHANGED << variant, scanVars, isGenerating, prompt, phase, now, logs, peerVars,
                  connVars, isConnectModalOpen, lastBroadcast, storeVars, editVars,
                  envVars, notifVars, showCb, tasks >>

\* the continuation after the promise rejected: catch (console.error, alert),
\* then finally
GenerateRejected(why) ==
  /\ requests # <<>>
  /\ isGenerating' = FALSE
  /\ requests' = Tail(requests)
  /\ op' = [Op("generateRejected", why, 0) EXCEPT
              !.alerts = <<"Failed to generate button. Check API Key.">>]
  /\ UNCHANGED << variant, scanVars, prompt, phase, now, logs, peerVars, connVars,
                  isConnectModalOpen, lastBroadcast, storeVars, editVars, envVars,
                  notifVars, showCb, tasks >>

\* onClose of the form: setIsModalOpen(false); setEditingButton(null)
CloseModal ==
  /\ phase = "mounted" /\ isModalOpen /\ uuids < MaxUuids
  /\ op' = Op("closeModal", <<>>, 0)
  /\ isModalOpen' = FALSE
  /\ editingButton' = <<>>
  /\ config' = ResetConfig(<<>>, uuids + 1)
  /\ uuids' = uuids + 1
  /\ UNCHANGED << variant, scanVars, genVars, phase, now, logs, peerVars, connVars, isConnectModalOpen,
                  lastBroadcast, storeVars, envVars, notifVars, showCb, tasks, saved >>

\* (mutation for C24: the first button is replaced, whichever was edited)
ReplaceFirst(bs, cfg) == [i \in 1..Len(bs) |-> IF i = 1 THEN cfg ELSE bs[i]]

\* buttons.map(b => b.id === config.id ? config : b)
ReplaceById(bs, cfg) == [i \in 1..Len(bs) |-> IF bs[i].id = cfg.id THEN cfg ELSE bs[i]]

\* buttons.filter(b => b.id !== id)
RemoveById(bs, id) == SelectSeq(bs, LAMBDA b : b.id # id)

\* (mutation for C7: the list as it was before the change is what gets stored)
SaveButtonsStale(newButtons) ==
  /\ buttons' = newButtons
  /\ stored' = Stored(JSONStringify(buttons))

\* (mutation for C19: the state is set and the record is left as it was)
SaveButtonsStateOnly(newButtons) ==
  /\ buttons' = newButtons
  /\ UNCHANGED stored

\* saveButtons(newButtons): the state and the stored record
SaveButtons(newButtons) ==
  /\ buttons' = newButtons
  /\ stored' = Stored(JSONStringify(newButtons))

\* what every close of the form does after a save or a delete
AfterSave ==
  /\ isModalOpen' = FALSE
  /\ editingButton' = <<>>
  /\ config' = ResetConfig(<<>>, uuids + 1)
  /\ uuids' = uuids + 1
  /\ showCb' = IF variant = "room" THEN showCb
               ELSE Closure(notificationsEnabled, buttons', isNotificationSupported,
                            isIOS, isStandalone)

\* onSave(config)
SaveConfig ==
  /\ phase = "mounted" /\ isModalOpen /\ uuids < MaxUuids
  /\ op' = Op("save", config, 0)
  /\ SaveButtons(IF editingButton # <<>> THEN ReplaceById(buttons, config)
                 ELSE Append(buttons, config))
  /\ AfterSave
  /\ saved' = <<config>>
  /\ IF variant = "room"
     THEN UNCHANGED << logs, now >>
     ELSE /\ logs' = AddLog(logs, <<"Button saved", config.label>>, "info", now)
          /\ now' = now + 1
  /\ UNCHANGED << variant, scanVars, genVars, phase, peerVars, connVars, isConnectModalOpen,
                  lastBroadcast, envVars, notifVars, tasks >>

\* onDelete(config.id): the control shows only while a button is being edited
DeleteConfig ==
  /\ phase = "mounted" /\ isModalOpen /\ editingButton # <<>> /\ uuids < MaxUuids
  /\ op' = Op("delete", config.id, 0)
  /\ SaveButtons(RemoveById(buttons, config.id))
  /\ AfterSave
  /\ saved' = IF saved # <<>> /\ saved[1].id = config.id THEN <<>> ELSE saved
  /\ IF variant \in {"room", "strict"}
     THEN UNCHANGED << logs, now >>
     ELSE /\ logs' = AddLog(logs, <<"Button deleted.">>, "info", now)
          /\ now' = now + 1
  /\ UNCHANGED << variant, scanVars, genVars, phase, peerVars, connVars, isConnectModalOpen,
                  lastBroadcast, envVars, notifVars, tasks >>

\* the page is loaded again: every useState starts over, the peer is destroyed;
\* the stored record, the browser and the clock stay
Reload ==
  /\ phase = "mounted"
  /\ phase' = "created"
  /\ op' = Op("reload", <<>>, 0)
  /\ logs' = <<>>
  /\ peerRef' = FALSE
  /\ peerId' = <<>>
  /\ isPeerReady' = FALSE
  /\ qrDataUrl' = <<>>
  /\ conns' = [c \in ConnIds |-> NoConn]
  /\ connections' = <<>>
  /\ isConnectModalOpen' = FALSE
  /\ lastBroadcast' = Null
  /\ buttons' = DEFAULT_BUTTONS
  /\ isNotificationSupported' = FALSE
  /\ notificationPermission' = "default"
  /\ notificationsEnabled' = InitEnabled(variant)
  /\ isIOS' = FALSE
  /\ isStandalone' = FALSE
  /\ showCb' = MountClosure(variant)
  /\ tasks' = [t \in TaskIds |-> IdleTask]
  /\ isModalOpen' = FALSE
  /\ editingButton' = <<>>
  /\ config' = Btn("", "", "command", "bg-blue-600", "{}")
  /\ isScannerActive' = FALSE
  /\ scannerRef' = <<>>
  /\ isGenerating' = FALSE
  /\ prompt' = <<>>
  /\ requests' = <<>>
  /\ UNCHANGED << variant, now, stored, envVars, uuids, saved >>

\* what the stored record may hold when the page is first opened: nothing, the
\* empty text, text cut off in the middle, text that is no JSON, a saved list
StoredInputs ==
  { Absent,
    Stored(<<>>),
    Stored(<<P("["), P("{"), S("id"), P(":")>>),
    Stored(<<S("streamcast")>> \o JSONStringify(<<DEFAULT_BUTTONS[2]>>)),
    Stored(JSONStringify(<<DEFAULT_BUTTONS[2], DEFAULT_BUTTONS[1]>>)) }

Edits == { <<"label", "Go Live">>, <<"payload", "{action:live}">> }

\* The edit form with its generation requests: opened for a new button or for
\* the first or second button, edited, closed, while a generation is in flight.
NextForm ==
  \/ Mount(FALSE, FALSE)
  \/ OpenAdd
  \/ \E i \in {1, 2} : OpenEdit(i)
  \/ \E e \in Edits : EditField(e[1], e[2])
  \/ CloseModal
  \/ \E p \in Prompts : SetPrompt(p)
  \/ HandleMagicGenerate
  \/ \E g \in Generated : GenerateResolved(g)
  \/ \E why \in Failures : GenerateRejected(why)
  \/ \E t \in TaskIds, found \in BOOLEAN : SwCheckDone(t, found)

SpecForm == Init /\ [][NextForm]_vars

MaxStoreTime == 4       \* clock readings in a run of the store specification

InitStore ==
  /\ \E v \in Variants, st \in StoredInputs : Created(v, st, TRUE, TRUE, "default", 0)
  /\ swCanShow = TRUE

NextStore ==
  /\ now < MaxStoreTime
  /\ \/ Mount(FALSE, FALSE)
     \/ OpenAdd
     \/ \E i \in {1, 2} : OpenEdit(i)
     \/ \E e \in Edits : EditField(e[1], e[2])
     \/ CloseModal
     \/ SaveConfig
     \/ DeleteConfig
     \/ Reload
     \/ \E t \in TaskIds, found \in BOOLEAN : SwCheckDone(t, found)

SpecStore == InitStore /\ [][NextStore]_vars

(***************************************************************************)
(* The dispatcher specification: a browser with the Notification API and a *)
(* service worker container, any permission status, the three revisions    *)
(* that notify.  Handlers run while the clock is below its bound; a        *)
(* continuation of a flow already started runs whenever it is enabled.     *)
(***************************************************************************)
MaxNotifyTime == 5      \* clock readings at which a handler of the dispatcher may start

Inbound == BroadcastMessage("1", "{action:scene,id:1}", 0)

InitNotify ==
  /\ \E v \in Variants \ {"room"}, perm \in Permissions :
       Created(v, Absent, TRUE, TRUE, perm, 0)
  /\ swCanShow \in BOOLEAN

Handlers ==
  \/ Mount(FALSE, FALSE)
  \/ PeerOpen(LocalId)
  \/ PeerConnection(<<"a">>)
  \/ ConnectToPeer(<<" ", "a">>)
  \/ \E c \in ConnIds : ConnOpen(c)
  \/ \E c \in ConnIds, ok \in BOOLEAN : ConnData(c, Inbound, ok)
  \/ \E ok \in BOOLEAN : TestNotification(ok)
  \/ BellClick

Continuations ==
  \/ \E t \in TaskIds, p \in Permissions : PromptResolved(t, p)
  \/ \E t \in TaskIds, found, ok \in BOOLEAN : VerifyReady(t, found, ok)
  \/ \E t \in TaskIds, ok \in BOOLEAN : DispatchReady(t, ok)
  \/ \E t \in TaskIds, shown, ok \in BOOLEAN : ShowSettled(t, shown, ok)
  \/ \E t \in TaskIds, ok \in BOOLEAN : TimeoutFires(t, ok)
  \/ \E t \in TaskIds, found \in BOOLEAN : SwCheckDone(t, found)

NextNotify ==
  \/ now < MaxNotifyTime /\ Handlers
  \/ SwActivate
  \/ Continuations

SpecNotify == InitNotify /\ [][NextNotify]_vars

\* the event loop runs the continuation of a settled promise and the callback of
\* an expired timer; nothing obliges the user, the peers or the browser's service
\* worker to act
SpecNotifyFair ==
  /\ SpecNotify
  /\ \A t \in TaskIds :
       /\ WF_vars(\E ok \in BOOLEAN : DispatchReady(t, ok))
       /\ WF_vars(\E shown, ok \in BOOLEAN : ShowSettled(t, shown, ok))
       /\ WF_vars(\E ok \in BOOLEAN : TimeoutFires(t, ok))

\* The dispatcher alone: one inbound connection, the test button and the bell.
MaxDispatchTime == 5    \* clock readings at which a handler may start

DispatchHandlers ==
  \/ Mount(FALSE, FALSE)
  \/ PeerOpen(LocalId)
  \/ PeerConnection(<<"a">>)
  \/ \E c \in ConnIds : ConnOpen(c)
  \/ \E c \in ConnIds, ok \in BOOLEAN : ConnData(c, Inbound, ok)
  \/ \E ok \in BOOLEAN : TestNotification(ok)
  \/ BellClick

NextDispatch ==
  \/ now < MaxDispatchTime /\ DispatchHandlers
  \/ SwActivate
  \/ Continuations

SpecDispatch == InitNotify /\ [][NextDispatch]_vars

\* The test button and the bell on every platform: with and without the
\* Notification API and the service worker container, in a browser tab or
\* installed to the Home Screen.
MaxPlatformTime == 3    \* clock readings at which a handler may start

InitPlatform ==
  /\ \E v \in Variants \ {"room"}, hasN, hasSW \in BOOLEAN, perm \in Permissions :
       \* without the Notification API there is no Notification.permission
       /\ ~hasN => perm = "default"
       /\ Created(v, Absent, hasN, hasSW, perm, 0)
  /\ swCanShow = TRUE

PlatformHandlers ==
  \/ \E ios, sa \in BOOLEAN : Mount(ios, sa)
  \/ \E ok \in BOOLEAN : TestNotification(ok)
  \/ BellClick

NextPlatform ==
  \/ now < MaxPlatformTime /\ PlatformHandlers
  \/ SwActivate
  \/ Continuations

SpecPlatform == InitPlatform /\ [][NextPlatform]_vars

(***************************************************************************)
(* Properties of the connection registry.                                 *)
(***************************************************************************)
OpenConns    == {c \in ConnIds : conns[c].status = "open"}
RegistrySet  == {connections[i] : i \in 1..Len(connections)}
RegistryPeer(i) == conns[connections[i]].peer
\* every variable but op and the clock-free frame of a handler that returned early
programVars == << variant, phase, now, logs, peerRef, peerId, isPeerReady, qrDataUrl,
                  conns, connections, isConnectModalOpen, lastBroadcast, buttons, stored,
                  hasNotification, hasServiceWorker, browserPermission,
                  isNotificationSupported, notificationPermission, notificationsEnabled,
                  isIOS, isStandalone, showCb, swReady, swCanShow, tasks,
                  isModalOpen, editingButton, config, uuids, saved,
                  isScannerActive, scannerRef, isGenerating, prompt, requests >>

\* the capacity of the log of the revision
Capacity == IF variant = "room" THEN RoomLogCapacity ELSE LogCapacity

\* C1: the registry never holds two entries with the same remote identifier, and
\* it has as many entries as there are remote identifiers with an open connection.
C1_RegistryMatchesOpenPeers ==
  /\ \A i, j \in 1..Len(connections) : i # j => RegistryPeer(i) # RegistryPeer(j)
  /\ Len(connections) = Cardinality({conns[c].peer : c \in OpenConns})

\* C4: a broadcast of an existing button while the registry holds no open
\* connection appends exactly one entry to the log and sends nothing.
C4_BroadcastWithoutPeers ==
  [][ ( /\ op'.name = "handleBroadcast"
        /\ FindButton(buttons, op'.arg) # 0
        /\ \A i \in 1..Len(connections) : conns[connections[i]].status # "open" )
      => ( /\ op'.sent = <<>>
           /\ logs' # <<>>
           /\ Tail(logs') = Take(logs, Capacity - 1) ) ]_vars

C4_Witness ==
  /\ op.name = "handleBroadcast"
  /\ FindButton(buttons, op.arg) # 0
  /\ connections = <<>>
  /\ op.sent = <<>>
  /\ logs # <<>>

\* C8: connectToPeer requests no connection and changes no state when the trimmed
\* target is empty, equals the local identifier, or the endpoint is not ready; in
\* every other case it requests exactly one connection with the handlers attached.
C8_ConnectGuard ==
  [][ op'.name = "connectToPeer"
      => IF Trim(op'.arg) = <<>> \/ Trim(op'.arg) = peerId \/ ~isPeerReady
         THEN UNCHANGED programVars
         ELSE \E c \in ConnIds :
                /\ conns[c].status = "unused"
                /\ conns'[c].status = "pending"
                /\ conns'[c].peer = Trim(op'.arg)
                /\ \A d \in ConnIds \ {c} : conns'[d] = conns[d] ]_vars

\* C9: a connection object is an entry of the registry only if its own open event
\* has fired; a request or an attempt that has not opened is never an entry.
C9_OnlyOpenedInRegistry ==
  \A i \in 1..Len(connections) : conns[connections[i]].status = "open"

\* an outbound attempt has just failed, another is still pending, and the registry
\* holds an opened connection
C9_Witness ==
  /\ op.name = "connFail"
  /\ connections # <<>>
  /\ op.conn \notin RegistrySet

\* C10: a close event removes the closing connection's own entry and no entry of
\* another connection object.
C10_CloseRemovesOwnEntryOnly ==
  [][ op'.name = "connClose"
      => connections' = SelectSeq(connections, LAMBDA d : d # op'.conn) ]_vars

(***************************************************************************)
(* Properties of the log, under SpecLog: every handler there reads the     *)
(* clock once and inserts one entry, except the mount of the room revision, *)
(* which inserts none.                                                     *)
(***************************************************************************)
EntryTime(e) == IF variant = "room" THEN e.timestamp ELSE e.time
Inserted     == IF variant = "room" THEN now - 1 ELSE now
FirstTime    == IF variant = "room" THEN 1 ELSE 0

\* C5: the log never holds more than its capacity (100, or 50 for the message
\* log of the room revision); once capacity + 1 entries were inserted, the first
\* one inserted is gone and the last one inserted is at the head.
C5_LogBounded ==
  /\ Len(logs) <= Capacity
  /\ Inserted > Capacity =>
       /\ \A i \in 1..Len(logs) : EntryTime(logs[i]) # FirstTime
       /\ EntryTime(logs[1]) = now - 1

C5_Witness ==
  /\ variant = "request"
  /\ Inserted = LogCapacity + 1
  /\ Len(logs) = LogCapacity
  /\ EntryTime(logs[LogCapacity]) = FirstTime + 1

(***************************************************************************)
(* Properties of the button store.                                         *)
(***************************************************************************)
HasLog(msg, type) ==
  \E i \in 1..Len(logs) : logs[i].type = type /\ logs[i].msg = msg

\* C6: at startup, a stored record that exists (a text that is not empty) but
\* does not parse leaves exactly the default buttons, the failure is logged, and
\* no alert or uncaught error reaches the user.
C6_UnparsableRecordFallsBack ==
  (op.name = "mount" /\ stored.present /\ stored.text # <<>> /\ ~JSONParse(stored.text).ok)
  => /\ buttons = DEFAULT_BUTTONS
     /\ HasLog(<<"Failed to load saved buttons">>, "error")
     /\ op.alerts = <<>>
     /\ ~op.threw

\* C7: a button saved through the edit form and reloaded at startup from the
\* stored record has the id, label, icon, colour and payload that were saved.
C7_SavedButtonSurvivesReload ==
  (op.name = "mount" /\ saved # <<>>)
  => \E i \in 1..Len(buttons) : buttons[i] = saved[1]

C7_Witness ==
  /\ op.name = "mount"
  /\ saved # <<>>
  /\ saved[1].label = "Go Live"
  /\ \E i \in 1..Len(buttons) : buttons[i].label = "Go Live"

(***************************************************************************)
(* Properties of the notification dispatcher.                              *)
(***************************************************************************)
Dispatches == {"connData", "testNotification"}

\* the dispatch tasks a step has started
Started == {t \in TaskIds : tasks'[t].kind = "dispatch" /\ tasks[t].kind # "dispatch"}

\* C2: a message dispatched (inbound data event or test action) while the alerts
\* flag is false starts no delivery through the service worker or the window, and
\* a 'skipped' entry is appended to the log, whatever the permission status and
\* also when the flag was toggled after the connection's handlers were attached.
C2_DisabledAlertsSkip ==
  [][ (op'.name \in Dispatches /\ variant # "room" /\ ~notificationsEnabled)
      => ( /\ Started = {}
           /\ op'.shown = <<>>
           /\ logs'[1].msg = <<"Notification skipped">> ) ]_vars

\* C3: while the service worker registration does not become ready, a dispatch
\* that passed the permission and flag gates does not wait forever: the timeout
\* fires, the window notification is attempted and its outcome is logged.
C3_FallbackAfterTimeout ==
  /\ \A t \in TaskIds :
       (tasks[t].pc = "awaitReady") ~> (swReady \/ tasks[t].pc # "awaitReady")
  /\ [][ op'.name = "timeoutFires"
         => \/ /\ op'.shown = <<Shown("window", op'.arg, Inbound.payload)>>
                   \/ op'.shown = <<Shown("window", op'.arg, TestMessage(0).payload)>>
               /\ logs'[1].msg = <<"Notification sent via Window API.">>
            \/ /\ op'.shown = <<>>
               /\ logs'[1].msg = <<"Window Notification failed">> ]_vars

(***************************************************************************)
(* Properties of the broadcast.                                            *)
(***************************************************************************)
\* the registry entries whose connection object has its open flag set
OpenEntries == SelectSeq(connections, LAMBDA c : conns[c].status = "open")

\* C11: a broadcast of a button of the list hands exactly one message to every
\* registry connection whose open flag is set, in registry order, and none to any
\* other; all recipients get the same message, of type BUTTON_PRESS, with the
\* pressed id and that button's payload at press time; the handler does not read
\* the result of a send, so nothing is retried and the registry stays as it was.
C11_BroadcastReachesOpenEntries ==
  [][ (op'.name = "handleBroadcast" /\ FindButton(buttons, op'.arg) # 0)
      => ( /\ Len(op'.sent) = Len(OpenEntries)
           /\ \A i \in 1..Len(OpenEntries) :
                /\ op'.sent[i].to = OpenEntries[i]
                /\ op'.sent[i].msg.type = "BUTTON_PRESS"
                /\ op'.sent[i].msg.buttonId = op'.arg
                /\ op'.sent[i].msg.payload = buttons[FindButton(buttons, op'.arg)].payload
                /\ op'.sent[i].msg = op'.sent[1].msg
           /\ UNCHANGED << connections, conns >> ) ]_vars

\* a broadcast has just gone to two open connections
C11_Witness ==
  /\ op.name = "handleBroadcast"
  /\ Len(op.sent) = 2
  /\ op.sent[1].to # op.sent[2].to
  /\ op.sent[1].msg = op.sent[2].msg

(***************************************************************************)
(* Properties of a dispatch from its start to its end.  A dispatch is the  *)
(* call of showLocalNotification: the handler that makes the call, then    *)
(* the continuations of the task it leaves behind.                         *)
(***************************************************************************)
DispatchSteps == {"dispatchReady", "showSettled", "timeoutFires"}

\* the dispatch tasks a step has ended
Ended == {t \in TaskIds : tasks[t].kind = "dispatch" /\ tasks'[t] = IdleTask}

\* C12: a dispatch displays at most one notification: no step displays two (the
\* window is tried only when the service worker did not deliver), the step that
\* displays one ends the dispatch, so neither a registration that becomes ready
\* after the timeout nor anything else displays a second one.
C12_AtMostOneNotification ==
  [][ /\ Len(op'.shown) <= 1
      /\ (op'.name \in Dispatches /\ op'.shown # <<>>) => Started = {}
      /\ (op'.name \in DispatchSteps /\ op'.shown # <<>>)
           => \E t \in Ended : \A u \in TaskIds \ {t} : tasks'[u] = tasks[u]
      /\ (op'.name \in DispatchSteps /\ Ended = {})
           => \E t \in TaskIds : /\ tasks[t].pc = "awaitReady"
                                  /\ tasks'[t].pc = "awaitShow"
                                  /\ op'.shown = <<>> ]_vars

\* the timeout has fired and the window has shown the message; afterwards the
\* registration became ready, and no flow is left to act on it
C12_Witness ==
  /\ variant = "timeout"
  /\ op.name = "swActivate"
  /\ \E i \in 1..Len(logs) : logs[i].msg = <<"Notification sent via Window API.">>
  /\ \A t \in TaskIds : tasks[t].pc = "idle"
  /\ ~ENABLED Continuations

\* the entries that name the outcome of a dispatch, by their first words
Outcomes ==
  { "Notification delivered for", "Notification sent via ServiceWorker.",
    "Legacy notification triggered for", "Notification sent via Window API.",
    "Notification execution failed", "Notification delivery failed",
    "Window Notification failed" }

\* C13: the step that ends a dispatch which passed the permission and flag gates
\* writes a log entry naming its outcome: delivered through the service worker,
\* delivered through the window, or failed.
C13_DispatchEndsWithOutcomeEntry ==
  [][ Ended # {} => ( /\ logs' # logs
                      /\ logs'[1].msg[1] \in Outcomes ) ]_vars

\* C14: a message dispatched while Notification.permission is 'default' or
\* 'denied' displays nothing and starts no delivery, through the service worker or
\* the window, whether the alerts flag is true or false.
C14_NoDeliveryWithoutPermission ==
  [][ (op'.name \in Dispatches /\ variant # "room" /\ browserPermission # "granted")
      => ( /\ op'.shown = <<>>
           /\ Started = {} ) ]_vars

\* a test message was dispatched with the permission denied and the flag true
C14_Witness ==
  /\ op.name = "testNotification"
  /\ browserPermission = "denied"
  /\ notificationsEnabled
  /\ showCb.enabled
  /\ op.shown = <<>>

(***************************************************************************)
(* Properties of the permission request and of notification errors.        *)
(***************************************************************************)
\* the steps in which requestNotificationPermission() runs: the bell while the
\* permission is not granted, and in the request revision a dispatch that found
\* the permission not granted
Requests ==
  \/ op'.name = "bell" /\ op'.arg = "request"
  \/ /\ op'.name \in Dispatches
     /\ variant = "request"
     /\ hasNotification
     /\ browserPermission # "granted"

\* the flows a step has started at `await Notification.requestPermission()`
Prompted == {t \in TaskIds : tasks'[t].pc = "awaitPrompt" /\ tasks[t].pc # "awaitPrompt"}

\* C15: on a platform that does not support notifications, and on any platform
\* once the permission is 'denied', requestNotificationPermission shows guidance,
\* asks the browser for nothing, and leaves the stored permission status and the
\* alerts flag as they were.
C15_GuidanceInsteadOfRequest ==
  [][ (Requests /\ (~Supported \/ browserPermission = "denied"))
      => ( /\ op'.alerts # <<>>
           /\ Prompted = {}
           /\ UNCHANGED << notificationPermission, notificationsEnabled,
                           browserPermission >> ) ]_vars

\* the bell was clicked in Safari on iOS, not installed to the Home Screen
C15_Witness ==
  /\ op.name = "bell"
  /\ op.arg = "request"
  /\ ~Supported
  /\ isIOS /\ ~isStandalone
  /\ op.alerts = <<"add to Home Screen">>

\* C17: a message dispatched on a platform without the Notification API raises
\* no uncaught error: the dispatch completes and writes an error entry to the log.
C17_MissingApiIsLogged ==
  [][ (op'.name \in Dispatches /\ variant # "room" /\ ~hasNotification)
      => ( /\ ~op'.threw
           /\ logs'[1].type = "error" ) ]_vars

\* what showLocalNotification decides for a message with the closure cb in the
\* current state: the entries it writes (by their first words), the alerts it
\* shows, whether it goes on to deliver, and whether it throws
Decision(cb) ==
  LET r == ShowLocalNotification(cb, Inbound, <<>>, 0, TRUE)
  IN  [ entries |-> [i \in 1..Len(r.logs) |-> r.logs[i].msg[1]],
        alerts  |-> r.alerts,
        deliver |-> r.task # <<>> \/ r.shown # <<>>,
        threw   |-> r.threw ]

\* C16: in every state the test action, which calls the showLocalNotification of
\* the current render, decides as the data handler of every open connection
\* does, which calls the showLocalNotification its setupConnection closed over.
C16_TestDecidesAsInbound ==
  (phase = "mounted" /\ variant \in {"request", "timeout"})
  => \A c \in OpenConns : Decision(conns[c].cb) = Decision(showCb)

\* C18: an error event of the connection library appends exactly one entry, of
\* type error, to the log, and leaves the registry (and the connections in it),
\* the local identifier, the ready flag and the button list as they were.
C18_PeerErrorOnlyLogs ==
  [][ op'.name = "peerError"
      => ( /\ Len(logs') = Len(logs) + 1
           /\ logs'[1].type = "error"
           /\ Tail(logs') = logs
           /\ UNCHANGED << connections, conns, peerId, isPeerReady, buttons >> ) ]_vars

(***************************************************************************)
(* Properties of the button list and its stored record.                    *)
(***************************************************************************)
\* C19: after a create, an update or a delete of a button, the record stored under
\* 'streamcast_buttons' is the serialization of the button list as that operation
\* left it, in its order.
C19_StoredIsSerializedList ==
  op.name \in {"save", "delete"} => stored = Stored(JSONStringify(buttons))

\* a button was deleted and the record holds the five that remain
C19_Witness ==
  /\ op.name = "delete"
  /\ Len(buttons) = Len(DEFAULT_BUTTONS) - 1
  /\ stored = Stored(JSONStringify(buttons))

Prepended ==
  {k \in 0..Len(logs') :
     SubSeq(logs', k + 1, Len(logs')) = Take(logs, Len(logs') - k)}

\* C21: the log is newest-first by insertion: a step puts its entries at the head
\* and leaves the older ones below in their order, no entry is nearer the head
\* than one written at a later clock reading, and the entry of an inbound data
\* event lies below every entry its dispatch writes, in that step and later.
C21_LogNewestFirst ==
  [][ /\ Prepended # {}
      /\ variant # "room"
           => \A i \in 1..(Len(logs') - 1) : logs'[i].time >= logs'[i + 1].time
      /\ (op'.name = "connData" /\ variant # "room")
           => \E k \in Prepended : k >= 1 /\ logs'[k].msg[1] = "Received broadcast" ]_vars

\* a dispatch has written its outcome above the entry of the data event
C21_Witness ==
  /\ op.name \in DispatchSteps
  /\ \E i, j \in 1..Len(logs) :
       /\ i < j
       /\ logs[i].msg[1] \in Outcomes
       /\ logs[j].msg[1] = "Received broadcast"

(***************************************************************************)
(* Properties of the connect dialog.                                       *)
(***************************************************************************)
\* C23: whenever the connect dialog is closed, however it was closed, no scanner
\* is active: the flag is false and the handle is cleared.
C23_ClosedDialogHasNoScanner ==
  (phase = "mounted" /\ variant # "room" /\ ~isConnectModalOpen)
  => (~isScannerActive /\ scannerRef = <<>>)

(***************************************************************************)
(* Properties of the edit form.                                            *)
(***************************************************************************)
\* C24: saving an edited button replaces the one element with its id and keeps
\* the length of the list and every other element in its place; saving a new
\* button appends it; deleting removes the one element with that id and keeps
\* the others in their order.
C24_SaveAndDeleteTouchOneElement ==
  [][ /\ (op'.name = "save" /\ editingButton # <<>>)
           => /\ Len(buttons') = Len(buttons)
              /\ \E k \in 1..Len(buttons) :
                   /\ buttons[k].id = op'.arg.id
                   /\ buttons'[k] = op'.arg
                   /\ \A i \in 1..Len(buttons) \ {k} : buttons'[i] = buttons[i]
      /\ (op'.name = "save" /\ editingButton = <<>>)
           => buttons' = buttons \o << op'.arg >>
      /\ op'.name = "delete"
           => \E k \in 1..Len(buttons) :
                /\ buttons[k].id = op'.arg
                /\ buttons' = SubSeq(buttons, 1, k - 1)
                                \o SubSeq(buttons, k + 1, Len(buttons)) ]_vars

\* the second default button was edited and saved in its place
C24_Witness ==
  /\ op.name = "save"
  /\ Len(buttons) = Len(DEFAULT_BUTTONS)
  /\ buttons[2] = op.arg
  /\ buttons[2] # DEFAULT_BUTTONS[2]
  /\ \A i \in 1..Len(buttons) \ {2} : buttons[i] = DEFAULT_BUTTONS[i]

(***************************************************************************)
(* Properties of the request fallback and of late changes of the flag.     *)
(***************************************************************************)
\* C25: in the request revision, on a platform that supports notifications, a
\* message dispatched while Notification.permission is 'default' starts a browser
\* permission request, from an inbound connection as from the test action.
C25_DefaultPermissionIsRequested ==
  [][ ( /\ op'.name \in Dispatches
        /\ variant = "request"
        /\ Supported
        /\ browserPermission = "default" )
      => Prompted # {} ]_vars

\* C26: whenever a connection object to the remote identifier r is open, the
\* registry holds an entry for r, also after one of two connection objects to
\* the same r has closed.
C26_OpenPeerHasEntry ==
  \A c \in OpenConns :
    \E i \in 1..Len(connections) : RegistryPeer(i) = conns[c].peer

\* C27: once Notification.permission is 'granted' and the alerts flag is true, a
\* message arriving on any open connection leads to a delivery attempt, also when
\* the handlers of the connection were attached before the flag became true.
C27_EnabledAlertsDeliver ==
  [][ ( /\ op'.name = "connData"
        /\ variant # "room"
        /\ hasNotification
        /\ browserPermission = "granted"
        /\ notificationsEnabled )
      => (Started # {} \/ op'.shown # <<>>) ]_vars

(***************************************************************************)
(* Properties of the generation requests of the edit form.                 *)
(***************************************************************************)
\* C22: when a generation fails, the user gets an alert, the step changes no
\* field of the configuration being edited (issuing the request changed none
\* either), and the generating flag is false afterwards.
C22_FailedGenerationKeepsConfig ==
  [][ /\ op'.name = "generateRejected"
           => /\ op'.alerts # <<>>
              /\ config' = config
              /\ ~isGenerating'
      /\ op'.name = "generate" => config' = config ]_vars

\* a generation for the edited second button failed and the form is usable again
C22_Witness ==
  /\ op.name = "generateRejected"
  /\ op.arg = "API Key missing"
  /\ isModalOpen
  /\ editingButton = << DEFAULT_BUTTONS[2] >>
  /\ config = DEFAULT_BUTTONS[2]
  /\ ~isGenerating

\* C28: a generation result that arrives after the form was closed and opened
\* again changes no field of the configuration of the session now open.
C28_LateResultLeavesOtherSession ==
  [][ ( /\ op'.name = "generateResolved"
        /\ isModalOpen
        /\ requests[1].session # uuids )
      => config' = config ]_vars

\* C29: a successful generation never changes the id of the configuration, and
\* each of label, icon name, colour and payload becomes the generated value if
\* that is not empty and keeps its value otherwise.
C29_GenerationMergesNonEmptyFields ==
  [][ op'.name = "generateResolved"
      => /\ config'.id = config.id
         /\ \A f \in {"label", "iconName", "color", "payload"} :
              config'[f] = IF op'.arg[f] = "" THEN config[f] ELSE op'.arg[f] ]_vars

\* only the label was generated: the other fields of the first button stayed
C29_Witness ==
  /\ op.name = "generateResolved"
  /\ op.arg.label = "Quiet" /\ op.arg.payload = ""
  /\ config = [DEFAULT_BUTTONS[1] EXCEPT !.label = "Quiet"]

(***************************************************************************)
(* Properties of the bell.                                                 *)
(***************************************************************************)
\* C30: a click on the bell while the permission is granted flips the alerts flag
\* and appends a log entry that names the new value of the flag: ON when it has
\* just become true, OFF when it has just become false.
C30_BellLogsNewValue ==
  [][ (op'.name = "bell" /\ op'.arg = "toggle")
      => /\ notificationsEnabled' = ~notificationsEnabled
         /\ Len(logs') > 0
         /\ logs'[1].time = now
         /\ logs'[1].msg = << ToggleLabel,
                              IF notificationsEnabled' THEN "ON" ELSE "OFF" >> ]_vars

====
